---- MODULE Spec2Model ----
(***************************************************************************)
(* A model of sat-bucket (src/satbucket/routines.py): the temporal         *)
(* grouping of a time range into windows, the grouping of granule files    *)
(* by window, the consolidation (merge) of a per-granule bucket archive    *)
(* and the ingestion of granules by blocks.                                *)
(*                                                                         *)
(* Timestamps are records [year, month, day, tick] of the proleptic        *)
(* Gregorian calendar; a day has TicksPerDay instants (tick 0 is           *)
(* midnight).  Strings are sequences of one-character strings, so that     *)
(* str.startswith is a comparison of prefixes of sequences.                *)
(***************************************************************************)
EXTENDS Integers, Sequences, FiniteSets, TLC

(***************************************************************************)
(* Bounds of the model.                                                    *)
(***************************************************************************)
FirstYear == 2021
NumYears == 2
TicksPerDay == 2
\* A range grouped by day spans at most this many month boundaries.
DaySpanMonths == 2

\* A written consolidated file holds at most this many rows (max_file_size).
MaxRowsPerFile == 2

\* max_dask_total_tasks is at most this.
MaxBlockSize == 2
MaxTimesteps == 4
MaxTimeValue == 3
MaxFreq == 2

VARIABLES
    start_time,             \* argument start_time (a timestamp or NoTime)
    end_time,               \* argument end_time (a timestamp or NoTime)
    temporal_partitioning,  \* temporal_partitioning (in a merge run: the one in force)
    intervals,              \* the list returned by get_list_group_periods
    pc,                     \* position of the caller / of the running routine
    \* -- the two bucket archives on disk
    src_bucket,             \* ids of the granule files in the per-granule archive
    dst_exists,             \* os.path.exists(dst_bucket_dir)
    dst_info,               \* the destination archive's metadata record, or NoInfo
    dst_part_dirs,          \* the destination partition directories that exist
    dst_files,              \* partition -> (file name -> [rows, old]); old: the file
                            \* existed when the current run started
    \* -- the running merge_granule_buckets
    update,                 \* argument update
    todo,                   \* partitions of dict_partitions not yet iterated
    partition_label,        \* partition_label of the current iteration
    filepaths,              \* filepaths of the current partition (after the filter)
    groups_dict,            \* groups_dict of the current partition
    existing_filepaths,     \* existing_filepaths of the current partition
    del_idx,                \* position of the loop over time_prefix (line 807)
    del_seen,               \* filepaths already visited for that time_prefix
    write_idx,              \* position of the loop over groups_dict (line 813)
    error,                  \* the exception that ended the run, or None
    \* -- history
    src_at_start,           \* src_bucket when the current run started
    dst_pre,                \* dst_files when the current run started
    info_pre,               \* dst_info when the current run started
    written,                \* the write_dataset calls of the current run: partition,
                            \* window and rows written
    prev,                   \* when the current run repeats the run before (same
                            \* arguments, same source archive): the rows of the
                            \* destination after the run before
    dst_spatial_partitioning, \* the destination spatial partitioning in force in the
                            \* current run, or None if the run ended before line 683
    src_read,               \* history: the current run has read the source archive
    \* -- write_granules_bucket
    src_filepaths,          \* argument filepaths
    behaviour,              \* what granule_to_df_func, add_labels and the writer do
                            \* for each source file
    parallel,               \* argument parallel
    max_dask_total_tasks,   \* argument max_dask_total_tasks
    bucket_info,            \* the metadata record of the per-granule archive
    bucket_files,           \* file name -> source file it was written from
    list_blocks,            \* list_blocks
    block_idx,              \* position of the loop over list_blocks (1-based)
    list_results,           \* list_results of the current block
    pending,                \* positions of the block whose call has not run yet
    reported,               \* the (src_filepath, error_str) pairs printed so far
    uncaught,               \* the exception that ended the run, or None
    \* -- satbucket.info and satbucket.utils.time
    filename,               \* the file name given to satbucket.info
    filename_patterns,      \* argument filename_pattern(s), a list
    info_result,            \* what the call of satbucket.info did
    ds_time,                \* ds[time_dim].data of the dataset given to utils.time
    time_result,            \* what the call of satbucket.utils.time did
    log                     \* history: the effects of the run, in order

periodVars == <<intervals>>
archiveVars == <<src_bucket, dst_exists, dst_info, dst_part_dirs, dst_files>>
runVars == <<update, todo, partition_label, filepaths, groups_dict, existing_filepaths,
             del_idx, del_seen, write_idx, error>>
histVars == <<src_at_start, dst_pre, info_pre, written, prev>>
argVars == <<dst_spatial_partitioning, src_read>>
mergeVars == <<archiveVars, runVars, histVars, argVars>>
ingestVars == <<src_filepaths, behaviour, parallel, max_dask_total_tasks, bucket_info,
                bucket_files, list_blocks, block_idx, list_results, pending, reported,
                uncaught, log>>

infoVars == <<filename, filename_patterns, info_result>>
timeVars == <<ds_time, time_result>>
utilVars == <<infoVars, timeVars>>

vars == <<start_time, end_time, temporal_partitioning, pc, periodVars, mergeVars,
          ingestVars, utilVars>>

None == "None"

\* No metadata record.
NoInfo == [spatial_partitioning |-> None, temporal_partitioning |-> None]

\* A directory without files.
EmptyDir == [name \in {} |-> None]

(***************************************************************************)
(* Calendar: pandas.Timestamp and its arithmetic.                          *)
(***************************************************************************)
Ts(y, m, d, k) == [year |-> y, month |-> m, day |-> d, tick |-> k]

\* The value None of an argument start_time or end_time.
NoTime == Ts(0, 0, 0, 0)

IsLeap(y) == (y % 4 = 0 /\ y % 100 # 0) \/ y % 400 = 0

DaysInMonth(y, m) ==
    IF m = 2 THEN (IF IsLeap(y) THEN 29 ELSE 28)
    ELSE IF m \in {4, 6, 9, 11} THEN 30 ELSE 31

\* Order of timestamps: Key is strictly increasing in time.
Key(t) == ((t.year * 12 + (t.month - 1)) * 31 + (t.day - 1)) * TicksPerDay + t.tick

Lt(a, b) == Key(a) < Key(b)
Le(a, b) == Key(a) <= Key(b)
TsMax(a, b) == IF Lt(a, b) THEN b ELSE a
TsMin(a, b) == IF Lt(b, a) THEN b ELSE a

\* Timestamp.normalize(): midnight of the same day.
Normalize(t) == Ts(t.year, t.month, t.day, 0)

\* t + pd.DateOffset(days=1)
AddDay(t) ==
    IF t.day < DaysInMonth(t.year, t.month) THEN Ts(t.year, t.month, t.day + 1, t.tick)
    ELSE IF t.month < 12 THEN Ts(t.year, t.month + 1, 1, t.tick)
    ELSE Ts(t.year + 1, 1, 1, t.tick)

\* t + pd.DateOffset(months=n): the day is clipped to the length of the month.
AddMonths(t, n) ==
    LET idx == t.year * 12 + (t.month - 1) + n
        y == idx \div 12
        m == (idx % 12) + 1
        d == IF t.day > DaysInMonth(y, m) THEN DaysInMonth(y, m) ELSE t.day
    IN Ts(y, m, d, t.tick)

\* t + pd.DateOffset(years=1)
AddYears(t, n) == AddMonths(t, 12 * n)

\* One step of pd.date_range for the month-based frequencies "YS", "QS", "MS".
FreqMonths(freq) ==
    CASE freq = "YS" -> 12
      [] freq = "QS" -> 3
      [] freq = "MS" -> 1

MonthIndex(t) == t.year * 12 + (t.month - 1)

\* The midnights of one month, in order.
DaysOfMonth(idx) ==
    [d \in 1..DaysInMonth(idx \div 12, (idx % 12) + 1) |->
        Ts(idx \div 12, (idx % 12) + 1, d, 0)]

\* The midnights of the months idx..last, in order.
RECURSIVE DaysOfMonths(_, _)
DaysOfMonths(idx, last) ==
    IF idx > last THEN <<>> ELSE DaysOfMonth(idx) \o DaysOfMonths(idx + 1, last)

\* pd.date_range(start, end, freq) for a start at midnight of the first day of
\* a month: start, start + 1 unit, ... up to and including end.
RECURSIVE month_range(_, _, _)
month_range(start, end, freq) ==
    IF Lt(end, start) THEN <<>>
    ELSE <<start>> \o month_range(AddMonths(start, FreqMonths(freq)), end, freq)

\* pd.date_range(start, end, freq): for "D" (start at midnight) every midnight
\* from start up to and including end.
date_range(start, end, freq) ==
    IF freq = "D"
    THEN SelectSeq(DaysOfMonths(MonthIndex(start), MonthIndex(end)),
                   LAMBDA t : Le(start, t) /\ Le(t, end))
    ELSE month_range(start, end, freq)

(***************************************************************************)
(* Strings.                                                                *)
(***************************************************************************)
DigitChar(d) == <<"0", "1", "2", "3", "4", "5", "6", "7", "8", "9">>[d + 1]

\* f"{n}" for a natural number n
RECURSIVE Str(_)
Str(n) == IF n < 10 THEN <<DigitChar(n)>> ELSE Str(n \div 10) \o <<DigitChar(n % 10)>>

\* name.startswith(prefix)
StartsWith(name, prefix) ==
    /\ Len(prefix) <= Len(name)
    /\ SubSeq(name, 1, Len(prefix)) = prefix

(***************************************************************************)
(* Temporal grouping.                                                      *)
(***************************************************************************)
Granularities == {"year", "month", "quarter", "day"}

QuarterOf(m) == (m - 1) \div 3 + 1
QuarterStartMonth(m) == 3 * (QuarterOf(m) - 1) + 1

\* get_time_prefix with the quarter taken as month // 3 + 1.
get_time_prefix_quarter_off(timestep, tp) ==
    CASE tp = "year" -> Str(timestep.year)
      [] tp = "month" -> Str(timestep.year) \o <<"_">> \o Str(timestep.month)
      [] tp = "quarter" -> Str(timestep.year) \o <<"_">> \o Str((timestep.month \div 3) + 1)
      [] tp = "day" -> Str(timestep.year) \o <<"_">> \o Str(timestep.month)
                         \o <<"_">> \o Str(timestep.day)

get_time_prefix(timestep, tp) ==
    CASE tp = "year" -> Str(timestep.year)
      [] tp = "month" -> Str(timestep.year) \o <<"_">> \o Str(timestep.month)
      [] tp = "quarter" -> Str(timestep.year) \o <<"_">> \o Str(QuarterOf(timestep.month))
      [] tp = "day" -> Str(timestep.year) \o <<"_">> \o Str(timestep.month)
                         \o <<"_">> \o Str(timestep.day)

get_partitioning_boundaries(start, end, tp) ==
    CASE tp = "year" ->
            LET e == IF end # Ts(end.year, 1, 1, 0) THEN AddYears(end, 1) ELSE end
            IN date_range(Ts(start.year, 1, 1, 0), Ts(e.year, 1, 1, 0), "YS")
      [] tp = "month" ->
            LET e == IF end # Ts(end.year, end.month, 1, 0) THEN AddMonths(end, 1) ELSE end
            IN date_range(Ts(start.year, start.month, 1, 0), Ts(e.year, e.month, 1, 0), "MS")
      [] tp = "quarter" ->
            LET e == IF end # Ts(end.year, QuarterStartMonth(end.month), 1, 0)
                     THEN AddMonths(end, 3) ELSE end
            IN date_range(Ts(start.year, QuarterStartMonth(start.month), 1, 0),
                          Ts(e.year, QuarterStartMonth(e.month), 1, 0), "QS")
      [] tp = "day" ->
            LET e == IF end # Normalize(end) THEN AddDay(Normalize(end)) ELSE end
            IN date_range(Ts(start.year, start.month, start.day, 0), e, "D")

\* GroupPeriod without the clamp of the group start to start_time.
GroupPeriod_no_start_clamp(boundaries, i, start, end, tp) ==
    LET group_end0 == IF i < Len(boundaries) THEN boundaries[i + 1] ELSE end
        group_start == boundaries[i]
        group_end == TsMin(group_end0, end)
    IN [prefix |-> get_time_prefix(group_start, tp),
        start |-> group_start,
        end |-> group_end]

\* One element of the loop of get_list_group_periods, for the i-th boundary.
GroupPeriod(boundaries, i, start, end, tp) ==
    LET group_end0 == IF i < Len(boundaries) THEN boundaries[i + 1] ELSE end
        group_start == TsMax(boundaries[i], start)
        group_end == TsMin(group_end0, end)
    IN [prefix |-> get_time_prefix(group_start, tp),
        start |-> group_start,
        end |-> group_end]

\* get_list_group_periods that keeps the zero-length intervals.
get_list_group_periods_keep_empty(start, end, tp) ==
    LET boundaries == get_partitioning_boundaries(start, end, tp)
    IN [i \in 1..Len(boundaries) |-> GroupPeriod(boundaries, i, start, end, tp)]

get_list_group_periods(start, end, tp) ==
    LET boundaries == get_partitioning_boundaries(start, end, tp)
        all == [i \in 1..Len(boundaries) |-> GroupPeriod(boundaries, i, start, end, tp)]
    IN SelectSeq(all, LAMBDA w : Lt(w.start, w.end))

(***************************************************************************)
(* The callers' time ranges: the first day (midnight and noon), the 15th   *)
(* and the last instant of every month, and the end of the last year.      *)
(***************************************************************************)
Years == FirstYear..(FirstYear + NumYears - 1)

Instants ==
    UNION {{Ts(y, m, 1, 0), Ts(y, m, 1, TicksPerDay - 1), Ts(y, m, 15, 0),
            Ts(y, m, DaysInMonth(y, m), TicksPerDay - 1)} : y \in Years, m \in 1..12}
      \cup {Ts(FirstYear + NumYears, 1, 1, 0)}

\* The variables of a merge run where no merge run exists.
(***************************************************************************)
(* The source files given to write_granules_bucket and what happens when   *)
(* one of them is processed.                                               *)
(***************************************************************************)
Path(dir, stem, ext) == [dir |-> dir, stem |-> stem, ext |-> ext]

NoPath == Path("", <<>>, "")

Paths == {Path("raw", <<"g", "1">>, "h5"), Path("raw", <<"g", "2">>, "h5"),
          Path("raw", <<"g", "3">>, "h5")}

\* What the processing of a source file does: granule_to_df_func returns a
\* dataframe and it is written, granule_to_df_func returns None, or an exception
\* is raised by granule_to_df_func, by add_labels or by the writer.
Failures == {"raise in granule_to_df_func", "raise in add_labels",
             "raise in write_partitioned_dataset"}
Outcomes == {"df", "None"} \cup Failures

\* The lists of distinct source files.
RECURSIVE ListsOf(_)
ListsOf(paths) ==
    {<<>>} \cup UNION {{<<x>> \o l : l \in ListsOf(paths \ {x})} : x \in paths}

Elems(seq) == {seq[i] : i \in 1..Len(seq)}

(***************************************************************************)
(* File names and their times (satbucket.info), time axes (utils.time).    *)
(***************************************************************************)
\* A value of the info dictionary: a datetime.datetime, a datetime.time or a
\* datetime.date, or no value under the key.  The day counts from 1900-01-01,
\* the hour is the time of day.
Value(type, day, hour) == [type |-> type, day |-> day, hour |-> hour]

Absent == Value("absent", 0, 0)

FieldNames == {"start_time", "end_time", "start_date", "end_date"}

\* A filename pattern: the format of each of its time fields.  "datetime" is a
\* format with date and time directives ("%Y%m%dT%H%M%S"), "time" one with time
\* directives only ("%H%M%S"), "date" one with date directives only ("%Y%m%d").
Pattern(st, et, sd, ed) ==
    [start_time |-> st, end_time |-> et, start_date |-> sd, end_date |-> ed]

NoPattern == Pattern("absent", "absent", "absent", "absent")

\* A file name: the pattern it is laid out by and the instants it was written from.
Filename(pattern, start, end) == [pattern |-> pattern, start |-> start, end |-> end]

NoFilename == Filename(NoPattern, Absent, Absent)

\* What a call did: the exception it raised or None, what it returned ("dict",
\* "exception" for an exception object, or "nothing"), and the dictionary
\* returned.
Result(raised, returned, value) ==
    [raised |-> raised, returned |-> returned, value |-> value]

NoDict == [k \in FieldNames |-> Absent]

NoResult == Result(None, "nothing", NoDict)

\* The same for a call of satbucket.utils.time: the time axis that
\* _check_time_sorted returned and the time axis of the dataset returned.
TimeResult(raised, returned, checked, time) ==
    [raised |-> raised, returned |-> returned, checked |-> checked, time |-> time]

NoTimeResult == TimeResult(None, "nothing", <<>>, <<>>)

NoUtil ==
    /\ filename = NoFilename /\ filename_patterns = <<>> /\ info_result = NoResult
    /\ ds_time = <<>> /\ time_result = NoTimeResult

NoIngest ==
    /\ src_filepaths = <<>> /\ behaviour = [x \in Paths |-> "df"]
    /\ parallel = FALSE /\ max_dask_total_tasks = 1
    /\ bucket_info = NoInfo /\ bucket_files = EmptyDir
    /\ list_blocks = <<>> /\ block_idx = 0 /\ list_results = <<>> /\ pending = {}
    /\ reported = <<>> /\ uncaught = None /\ log = <<>>

NoMerge ==
    /\ src_bucket = {} /\ dst_exists = FALSE /\ dst_info = NoInfo
    /\ dst_part_dirs = {} /\ dst_files = <<>>
    /\ update = FALSE /\ todo = {} /\ partition_label = None /\ filepaths = {}
    /\ groups_dict = <<>> /\ existing_filepaths = {} /\ del_idx = 0 /\ del_seen = {}
    /\ write_idx = 0 /\ error = None
    /\ src_at_start = {} /\ dst_pre = <<>> /\ info_pre = NoInfo
    /\ written = {} /\ prev = <<>>
    /\ dst_spatial_partitioning = None /\ src_read = FALSE

InitPeriods ==
    /\ NoMerge /\ NoIngest /\ NoUtil
    /\ start_time \in Instants
    /\ end_time \in {e \in Instants : Le(start_time, e)}
    /\ temporal_partitioning \in Granularities
    /\ temporal_partitioning = "day"
          => MonthIndex(end_time) - MonthIndex(start_time) <= DaySpanMonths
    /\ intervals = <<>>
    /\ pc = "call"

CallGetListGroupPeriods ==
    /\ pc = "call"
    /\ intervals' = get_list_group_periods(start_time, end_time, temporal_partitioning)
    /\ pc' = "returned"
    /\ UNCHANGED <<start_time, end_time, temporal_partitioning, mergeVars, ingestVars,
                   utilVars>>

NextPeriods == CallGetListGroupPeriods

SpecPeriods == InitPeriods /\ [][NextPeriods]_vars

(***************************************************************************)
(* The bucket archives.  A granule file of the per-granule archive lies in *)
(* one spatial partition; its name declares [start_time, end_time) and its *)
(* rows have their time within that range.  group_files_by_time is given   *)
(* the declared times of the files: their extraction from the file names   *)
(* (satbucket.info) is not part of this section.                           *)
(***************************************************************************)
Partitions == {"p1", "p2"}

Granule(id, part, s, e, times) ==
    [id |-> id, part |-> part, start_time |-> s, end_time |-> e, times |-> times]

Granules ==
    {Granule(1, "p1", Ts(2021, 1, 10, 0), Ts(2021, 1, 11, 0),
             {Ts(2021, 1, 10, 0), Ts(2021, 1, 10, 1)}),
     Granule(2, "p1", Ts(2021, 10, 5, 0), Ts(2021, 10, 6, 0), {Ts(2021, 10, 5, 1)}),
     Granule(3, "p2", Ts(2021, 1, 5, 0), Ts(2021, 1, 6, 0), {Ts(2021, 1, 5, 1)}),
     Granule(4, "p1", Ts(2021, 1, 31, 1), Ts(2021, 2, 1, 1),
             {Ts(2021, 1, 31, 1), Ts(2021, 2, 1, 0)})}

GranuleIds == {g.id : g \in Granules}

\* The ingestion pipeline has written the granule files in the order of their ids.
SourceArchives == {1..n : n \in 0..Cardinality(GranuleIds)}

\* The parquet files of a partition directory of the per-granule archive.
FilesOf(bucket, p) == {g \in Granules : g.id \in bucket /\ g.part = p}

RowsOf(g) == {[granule |-> g.id, time |-> t] : t \in g.times}

AllRows == UNION {RowsOf(g) : g \in Granules}

\* The (start_time, end_time) arguments of the merge runs.
\* (start_time, end_time) arguments with one of the two missing.
HalfRanges == {<<Ts(2021, 1, 1, 0), NoTime>>, <<NoTime, Ts(2021, 2, 1, 0)>>}

RunRanges ==
    {<<NoTime, NoTime>>,
     <<Ts(2021, 1, 1, 0), Ts(2021, 2, 1, 0)>>,
     <<Ts(2021, 1, 15, 0), Ts(2021, 2, 1, 0)>>,
     <<Ts(2021, 1, 1, 0), Ts(2022, 1, 1, 0)>>}

\* The temporal_partitioning arguments of the merge runs.
TemporalArgs == {"year", "month", "quarter", "day", "season"}

\* The (update, temporal_partitioning, dst_spatial_partitioning) arguments of
\* the merge runs.
MergeArgs ==
    ({FALSE} \X TemporalArgs \X {None})
        \cup {<<FALSE, "year", "LonLatPartitioning(5)">>,
              <<TRUE, "year", None>>, <<TRUE, "month", "LonLatPartitioning(5)">>}

SrcSpatialPartitioning == "LonLatPartitioning(10)"
SpatialArgs == {None, "LonLatPartitioning(5)"}

(***************************************************************************)
(* Merge of the per-granule archive.                                       *)
(***************************************************************************)
\* satbucket.filters.is_within_time_period: the file's range intersects the period.
is_within_time_period(l_start_time, l_end_time, start, end) ==
    Lt(l_start_time, end) /\ Lt(start, l_end_time)

\* satbucket.filters.filter_filepaths
filter_filepaths(files, start, end) ==
    {f \in files : is_within_time_period(f.start_time, f.end_time, start, end)}

\* satbucket.io.write_bucket_info: the metadata record of an archive.
write_bucket_info(spatial_partitioning, tp) ==
    [spatial_partitioning |-> spatial_partitioning, temporal_partitioning |-> tp]

\* The metadata record of a destination archive that exists before the first
\* run and holds no partition yet: it was set up for a per-granule archive
\* with another spatial partitioning.
OtherArchiveInfo == write_bucket_info("LonLatPartitioning(5)", "month")

check_temporal_partitioning(tp) == tp \in {"year", "month", "season", "quarter"}

\* The destination partitions with their source directories.
define_dict_partitions(bucket) == {p \in Partitions : FilesOf(bucket, p) # {}}

\* get_template_table finds a first file.
get_template_table(bucket, dict_partitions) ==
    \E p \in dict_partitions : FilesOf(bucket, p) # {}

MinStartTime(files) ==
    CHOOSE t \in {f.start_time : f \in files} : \A f \in files : Le(t, f.start_time)

MaxEndTime(files) ==
    CHOOSE t \in {f.end_time : f \in files} : \A f \in files : Le(f.end_time, t)

\* group_files_by_time that keeps the groups without files.
group_files_by_time_keep_empty(files, start, end, tp) ==
    LET s == IF start = NoTime THEN MinStartTime(files) ELSE start
        e == IF end = NoTime THEN MaxEndTime(files) ELSE end
        list_group_periods == get_list_group_periods(s, e, tp)
    IN [i \in 1..Len(list_group_periods) |->
          LET w == list_group_periods[i]
          IN [prefix |-> w.prefix, start |-> w.start, end |-> w.end,
              files |-> {f \in files :
                           is_within_time_period(f.start_time, f.end_time,
                                                 w.start, w.end)}]]

\* groups_dict as the list of its (key, (start, end, filepaths)) items, for a
\* temporal_partitioning that get_partitioning_boundaries implements.
group_files_by_time(files, start, end, tp) ==
    LET s == IF start = NoTime THEN MinStartTime(files) ELSE start
        e == IF end = NoTime THEN MaxEndTime(files) ELSE end
        list_group_periods == get_list_group_periods(s, e, tp)
        all == [i \in 1..Len(list_group_periods) |->
                  LET w == list_group_periods[i]
                  IN [prefix |-> w.prefix, start |-> w.start, end |-> w.end,
                      files |-> {f \in files :
                                   is_within_time_period(f.start_time, f.end_time,
                                                         w.start, w.end)}]]
    IN SelectSeq(all, LAMBDA g : g.files # {})

\* define_dataset_filter with time <= end_time.
define_dataset_filter_closed(row, start, end) == Le(start, row.time) /\ Le(row.time, end)

\* The row filter of define_dataset_filter: time >= start_time and time < end_time.
define_dataset_filter(row, start, end) == Le(start, row.time) /\ Lt(row.time, end)

\* The rows that the scanner of the dataset of src_filepaths yields.
ScanRows(files, start, end) ==
    {r \in UNION {RowsOf(f) : f \in files} : define_dataset_filter(r, start, end)}

RowBefore(a, b) ==
    \/ Key(a.time) < Key(b.time)
    \/ Key(a.time) = Key(b.time) /\ a.granule <= b.granule

RECURSIVE SortRows(_)
SortRows(rows) ==
    IF rows = {} THEN <<>>
    ELSE LET first == CHOOSE r \in rows : \A q \in rows : RowBefore(r, q)
         IN <<first>> \o SortRows(rows \ {first})

\* basename_template.format(i=i)
Basename(time_prefix, i) == time_prefix \o <<"_">> \o Str(i) \o <<".parquet">>

\* pa.dataset.write_dataset into a partition directory: the rows go to the files
\* <prefix>_0, <prefix>_1, ... of at most MaxRowsPerFile rows; a file of the
\* same name is overwritten, the other files are left alone; no row, no file.
write_dataset(dir, time_prefix, rows) ==
    LET sorted == SortRows(rows)
        n == Len(sorted)
        n_files == (n + MaxRowsPerFile - 1) \div MaxRowsPerFile
        names == {Basename(time_prefix, i) : i \in 0..(n_files - 1)}
        chunk(i) == {sorted[k] : k \in ((i * MaxRowsPerFile) + 1)..
                                       (IF (i + 1) * MaxRowsPerFile < n
                                        THEN (i + 1) * MaxRowsPerFile ELSE n)}
        index(name) == CHOOSE i \in 0..(n_files - 1) : Basename(time_prefix, i) = name
    IN [name \in (DOMAIN dir) \cup names |->
           IF name \in names THEN [rows |-> chunk(index(name)), old |-> FALSE]
           ELSE dir[name]]

\* os.remove(filepath) of an existing file.
remove(dir, name) == [nm \in (DOMAIN dir) \ {name} |-> dir[nm]]

\* The files of the destination archive, all marked as existing before the run.
MarkOld(files) ==
    [p \in Partitions |-> [name \in DOMAIN files[p] |-> [files[p][name] EXCEPT !.old = TRUE]]]

\* How many times each row is held by the files of each destination partition.
RowCounts(files) ==
    [p \in Partitions |->
        [r \in AllRows |-> Cardinality({name \in DOMAIN files[p] : r \in files[p][name].rows})]]

InitMerge ==
    /\ start_time = NoTime /\ end_time = NoTime /\ temporal_partitioning = None
    /\ intervals = <<>>
    /\ pc = "idle"
    /\ src_bucket \in SourceArchives
    /\ dst_exists \in BOOLEAN
    /\ dst_info = IF dst_exists THEN OtherArchiveInfo ELSE NoInfo
    /\ dst_part_dirs = {} /\ dst_files = [p \in Partitions |-> EmptyDir]
    /\ update = FALSE /\ todo = {} /\ partition_label = None /\ filepaths = {}
    /\ groups_dict = <<>> /\ existing_filepaths = {} /\ del_idx = 0 /\ del_seen = {}
    /\ write_idx = 0 /\ error = None
    /\ src_at_start = {} /\ dst_pre = [p \in Partitions |-> EmptyDir]
    /\ info_pre = NoInfo /\ written = {} /\ prev = <<>>
    /\ dst_spatial_partitioning = None /\ src_read = FALSE
    /\ NoIngest /\ NoUtil

Resting == pc \in {"idle", "done", "failed"}

\* The ingestion pipeline writes one more granule file into the source archive.
AddGranule(id) ==
    /\ Resting
    /\ id \notin src_bucket
    /\ src_bucket \cup {id} \in SourceArchives
    /\ src_bucket' = src_bucket \cup {id}
    /\ UNCHANGED <<start_time, end_time, temporal_partitioning, pc, periodVars, ingestVars, utilVars, argVars,
                   dst_exists, dst_info, dst_part_dirs, dst_files, runVars, histVars>>

\* The checks of the arguments for update=True (lines 665-677), without the
\* check of start_time and end_time.
check_update_arguments_no_bounds(u, exists, s, e) ==
    IF u /\ ~exists THEN "OSError: bucket directory does not exist" ELSE None

\* The checks of the arguments for update=True (lines 665-677): the exception
\* raised, or None.
check_update_arguments(u, exists, s, e) ==
    IF u /\ ~exists THEN "OSError: bucket directory does not exist"
    ELSE IF u /\ (s = NoTime \/ e = NoTime)
         THEN "ValueError: define both start_time and end_time"
    ELSE None

\* Lines 683-689 with the caller's arguments used in update mode too.
partitioning_in_force_from_arguments(u, tp, sp) ==
    IF sp = None
    THEN [spatial |-> SrcSpatialPartitioning, temporal |-> tp, error |-> None]
    ELSE [spatial |-> sp, temporal |-> tp,
          error |-> "NotImplementedError: repartitioning"]

\* The destination spatial partitioning and the temporal partitioning a run
\* works with (lines 683-689), and the exception raised there, or None.
partitioning_in_force(u, tp, sp) ==
    IF u
    THEN [spatial |-> dst_info.spatial_partitioning,
          temporal |-> dst_info.temporal_partitioning, error |-> None]
    ELSE IF sp = None
    THEN [spatial |-> SrcSpatialPartitioning, temporal |-> tp, error |-> None]
    ELSE [spatial |-> sp, temporal |-> tp,
          error |-> "NotImplementedError: repartitioning"]

\* merge_granule_buckets up to the loop over the partitions (lines 664-749).
StartMerge(u, range, tp, sp) ==
    LET s == range[1]
        e == range[2]
        arg_error == check_update_arguments(u, dst_exists, s, e)
        in_force == partitioning_in_force(u, tp, sp)
        tp_in_force == IF arg_error = None THEN in_force.temporal ELSE tp
        early == IF arg_error # None THEN arg_error
                 ELSE IF in_force.error # None THEN in_force.error
                 ELSE IF ~check_temporal_partitioning(tp_in_force)
                      THEN "ValueError: invalid temporal_partitioning"
                 ELSE None
        dict_partitions == define_dict_partitions(src_bucket)
        err == IF early # None THEN early
               ELSE IF ~get_template_table(src_bucket, dict_partitions)
                    THEN "ValueError: no file found"
               ELSE None
    IN /\ Resting
       /\ prev' = IF /\ pc = "done"
                     /\ u /\ update
                     /\ s = start_time /\ e = end_time
                     /\ src_bucket = src_at_start
                  THEN <<RowCounts(dst_files)>> ELSE <<>>
       /\ src_at_start' = src_bucket
       /\ dst_files' = MarkOld(dst_files)
       /\ dst_pre' = MarkOld(dst_files)
       /\ info_pre' = dst_info
       /\ written' = {}
       /\ update' = u /\ start_time' = s /\ end_time' = e
       /\ temporal_partitioning' = tp_in_force
       /\ dst_spatial_partitioning' = IF arg_error = None THEN in_force.spatial ELSE None
       /\ src_read' = (arg_error = None)
       /\ IF early = None /\ ~u
          THEN /\ dst_exists' = TRUE
               /\ dst_info' = write_bucket_info(in_force.spatial, tp_in_force)
          ELSE UNCHANGED <<dst_exists, dst_info>>
       /\ error' = err
       /\ pc' = IF err = None THEN "partition" ELSE "failed"
       /\ todo' = IF err = None THEN dict_partitions ELSE {}
       /\ partition_label' = None /\ filepaths' = {} /\ groups_dict' = <<>>
       /\ existing_filepaths' = {} /\ del_idx' = 0 /\ del_seen' = {} /\ write_idx' = 0
       /\ UNCHANGED <<periodVars, ingestVars, utilVars, src_bucket, dst_part_dirs>>

\* not update and os.path.exists(dst_partition_dir), without the check.
partition_already_exists_unchecked(p) == FALSE

\* not update and os.path.exists(dst_partition_dir)
partition_already_exists(p) == ~update /\ p \in dst_part_dirs

\* partition_outcome with a partition without files treated as an error.
partition_outcome_no_skip(p, fps) ==
    IF fps = {} THEN "ValueError: no data to consolidate"
    ELSE IF partition_already_exists(p) THEN "ValueError: partition already exists"
    ELSE IF temporal_partitioning \notin Granularities
         THEN "NotImplementedError: invalid temporal_partitioning"
    ELSE None

\* partition_outcome with the iteration going on to the next partition where
\* an exception is raised.
partition_outcome_errors_skipped(p, fps) ==
    IF fps = {} THEN "continue"
    ELSE IF partition_already_exists(p) THEN "continue"
    ELSE IF temporal_partitioning \notin Granularities THEN "continue"
    ELSE None

\* What an iteration of the loop over dict_partitions does before it deletes
\* or writes anything (lines 767-788): "continue" when no file is left, the
\* exception it raises, or None.
partition_outcome(p, fps) ==
    IF fps = {} THEN "continue"
    ELSE IF partition_already_exists(p) THEN "ValueError: partition already exists"
    ELSE IF temporal_partitioning \notin Granularities
         THEN "NotImplementedError: invalid temporal_partitioning"
    ELSE None

\* One iteration of the loop over dict_partitions up to the deletion of the
\* old files (lines 751-802).
NextPartition(p) ==
    LET all == FilesOf(src_bucket, p)
        fps == IF start_time # NoTime /\ end_time # NoTime
               THEN filter_filepaths(all, start_time, end_time) ELSE all
        err == partition_outcome(p, fps)
    IN /\ pc = "partition"
       /\ p \in todo
       /\ partition_label' = p
       /\ filepaths' = fps
       /\ IF err = "continue"
          THEN /\ todo' = todo \ {p}
               /\ UNCHANGED <<pc, error, groups_dict, existing_filepaths, del_idx,
                              write_idx, dst_part_dirs>>
          ELSE IF err # None
          THEN /\ pc' = "failed"
               /\ error' = err
               /\ UNCHANGED <<todo, groups_dict, existing_filepaths, del_idx,
                              write_idx, dst_part_dirs>>
          ELSE /\ groups_dict' = group_files_by_time(fps, start_time, end_time,
                                                     temporal_partitioning)
               /\ IF update
                  THEN /\ dst_part_dirs' = dst_part_dirs \cup {p}
                       /\ existing_filepaths' = DOMAIN dst_files[p]
                       /\ pc' = "delete"
                       /\ del_idx' = 1
                       /\ write_idx' = 0
                  ELSE /\ pc' = "write"
                       /\ write_idx' = 1
                       /\ del_idx' = 0
                       /\ UNCHANGED <<dst_part_dirs, existing_filepaths>>
               /\ UNCHANGED <<todo, error>>
       /\ del_seen' = {}
       /\ UNCHANGED <<start_time, end_time, temporal_partitioning, periodVars, ingestVars, utilVars, argVars,
                      src_bucket, dst_exists, dst_info, dst_files, update,
                      histVars>>

\* ToRemove that matches the first file of a group only.
ToRemove_first_file ==
    {f \in existing_filepaths \ del_seen : f = Basename(groups_dict[del_idx].prefix, 0)}

\* The filepaths of existing_filepaths that the inner loop (line 808) has still
\* to visit and that start with the current time_prefix.
ToRemove ==
    {f \in existing_filepaths \ del_seen : StartsWith(f, groups_dict[del_idx].prefix)}

\* One os.remove of the loop of lines 807-810.
RemoveOldFile(f) ==
    /\ pc = "delete"
    /\ del_idx <= Len(groups_dict)
    /\ f \in ToRemove
    /\ del_seen' = del_seen \cup {f}
    /\ IF f \in DOMAIN dst_files[partition_label]
       THEN /\ dst_files' = [dst_files EXCEPT ![partition_label] = remove(@, f)]
            /\ UNCHANGED <<pc, error>>
       ELSE /\ pc' = "failed"
            /\ error' = "FileNotFoundError"
            /\ UNCHANGED dst_files
    /\ UNCHANGED <<start_time, end_time, temporal_partitioning, periodVars, ingestVars, utilVars, argVars,
                   src_bucket, dst_exists, dst_info, dst_part_dirs, update, todo,
                   partition_label, filepaths, groups_dict, existing_filepaths,
                   del_idx, write_idx, histVars>>

\* The loop over time_prefix (line 807) advances; after the last one the loop
\* over the groups to write begins.
NextTimePrefix ==
    /\ pc = "delete"
    /\ del_idx > Len(groups_dict) \/ ToRemove = {}
    /\ del_seen' = {}
    /\ IF del_idx >= Len(groups_dict)
       THEN pc' = "write" /\ write_idx' = 1 /\ del_idx' = Len(groups_dict) + 1
       ELSE pc' = pc /\ write_idx' = write_idx /\ del_idx' = del_idx + 1
    /\ UNCHANGED <<start_time, end_time, temporal_partitioning, periodVars, ingestVars, utilVars, argVars,
                   archiveVars, update, todo, partition_label, filepaths,
                   groups_dict, existing_filepaths, error, histVars>>

\* One iteration of the loop over groups_dict (lines 813-848).
WriteGroup ==
    /\ pc = "write"
    /\ write_idx <= Len(groups_dict)
    /\ LET g == groups_dict[write_idx]
           rows == ScanRows(g.files, g.start, g.end)
       IN /\ dst_files' = [dst_files EXCEPT
                              ![partition_label] = write_dataset(@, g.prefix, rows)]
          /\ written' = written \cup {[partition |-> partition_label, prefix |-> g.prefix,
                                         start |-> g.start, end |-> g.end, rows |-> rows]}
    /\ dst_part_dirs' = dst_part_dirs \cup {partition_label}
    /\ write_idx' = write_idx + 1
    /\ UNCHANGED <<start_time, end_time, temporal_partitioning, pc, periodVars, ingestVars, utilVars, argVars,
                   src_bucket, dst_exists, dst_info, update, todo, partition_label,
                   filepaths, groups_dict, existing_filepaths, del_idx, del_seen,
                   error, src_at_start, dst_pre, info_pre, prev>>

\* The iteration of the current partition ends.
EndPartition ==
    /\ pc = "write"
    /\ write_idx > Len(groups_dict)
    /\ pc' = "partition"
    /\ todo' = todo \ {partition_label}
    /\ partition_label' = None /\ filepaths' = {} /\ groups_dict' = <<>>
    /\ existing_filepaths' = {} /\ del_idx' = 0 /\ del_seen' = {} /\ write_idx' = 0
    /\ UNCHANGED <<start_time, end_time, temporal_partitioning, periodVars, ingestVars, utilVars, argVars,
                   archiveVars, update, error, histVars>>

\* The loop over the partitions is over: merge_granule_buckets returns.
EndMerge ==
    /\ pc = "partition"
    /\ todo = {}
    /\ pc' = "done"
    /\ partition_label' = None /\ filepaths' = {}
    /\ UNCHANGED <<start_time, end_time, temporal_partitioning, periodVars, ingestVars, utilVars, argVars,
                   archiveVars, update, todo, groups_dict, existing_filepaths,
                   del_idx, del_seen, write_idx, error, histVars>>

NextMerge ==
    \/ \E id \in GranuleIds : AddGranule(id)
    \/ \E range \in RunRanges \cup HalfRanges, args \in MergeArgs :
          /\ range \in HalfRanges => args[1]
          /\ StartMerge(args[1], range, args[2], args[3])
    \/ \E p \in Partitions : NextPartition(p)
    \/ \E f \in existing_filepaths : RemoveOldFile(f)
    \/ NextTimePrefix
    \/ WriteGroup
    \/ EndPartition
    \/ EndMerge

SpecMerge == InitMerge /\ [][NextMerge]_vars

(***************************************************************************)
(* The calendar units of a granularity, counted independently of the       *)
(* boundaries: the index of the unit a timestamp lies in, and the numbers  *)
(* that name that unit.                                                    *)
(***************************************************************************)
RECURSIVE DaysBeforeMonth(_, _)
DaysBeforeMonth(y, m) == IF m = 1 THEN 0 ELSE DaysBeforeMonth(y, m - 1) + DaysInMonth(y, m - 1)

DayOrdinal(t) ==
    365 * t.year + ((t.year - 1) \div 4) - ((t.year - 1) \div 100) + ((t.year - 1) \div 400)
        + DaysBeforeMonth(t.year, t.month) + t.day

UnitIndex(t, tp) ==
    CASE tp = "year" -> t.year
      [] tp = "month" -> MonthIndex(t)
      [] tp = "quarter" -> t.year * 4 + ((t.month - 1) \div 3)
      [] tp = "day" -> DayOrdinal(t)

IsUnitStart(t, tp) ==
    CASE tp = "year" -> t.month = 1 /\ t.day = 1 /\ t.tick = 0
      [] tp = "month" -> t.day = 1 /\ t.tick = 0
      [] tp = "quarter" -> t.month \in {1, 4, 7, 10} /\ t.day = 1 /\ t.tick = 0
      [] tp = "day" -> t.tick = 0

UnitNumbers(t, tp) ==
    CASE tp = "year" -> <<t.year>>
      [] tp = "month" -> <<t.year, t.month>>
      [] tp = "quarter" -> <<t.year, ((t.month - 1) \div 3) + 1>>
      [] tp = "day" -> <<t.year, t.month, t.day>>

\* The index of the last unit that intersects [start, end), for start < end.
LastUnitIndex(end, tp) ==
    IF IsUnitStart(end, tp) THEN UnitIndex(end, tp) - 1 ELSE UnitIndex(end, tp)

\* The numbers of a prefix: "2021_1_15" reads <<2021, 1, 15>>.
DigitVal(c) == CHOOSE d \in 0..9 : DigitChar(d) = c

RECURSIVE ReadNumbers(_, _, _)
ReadNumbers(s, done, cur) ==
    IF s = <<>> THEN Append(done, cur)
    ELSE IF Head(s) = "_" THEN ReadNumbers(Tail(s), Append(done, cur), 0)
    ELSE ReadNumbers(Tail(s), done, 10 * cur + DigitVal(Head(s)))

PrefixNumbers(prefix) == ReadNumbers(prefix, <<>>, 0)

Returned == pc = "returned"

\* C2: the windows of get_list_group_periods(start, end, granularity), start <= end,
\* are half-open and non-empty, ordered by time and contiguous (each window ends
\* where the next one starts, hence they are pairwise disjoint), and their union
\* is [start, end): the first starts at start and the last ends at end; for
\* start = end there is no window.
C2_WindowsPartitionRange ==
    Returned =>
        /\ \A i \in 1..Len(intervals) : Lt(intervals[i].start, intervals[i].end)
        /\ \A i \in 1..(Len(intervals) - 1) :
              /\ intervals[i].end = intervals[i + 1].start
              /\ Lt(intervals[i].start, intervals[i + 1].start)
        /\ start_time = end_time => intervals = <<>>
        /\ Lt(start_time, end_time) =>
              /\ intervals # <<>>
              /\ intervals[1].start = start_time
              /\ intervals[Len(intervals)].end = end_time

C2_Witness ==
    /\ Returned
    /\ Len(intervals) >= 3
    /\ ~IsUnitStart(start_time, temporal_partitioning)
    /\ ~IsUnitStart(end_time, temporal_partitioning)

\* C9: for start < end the first window starts exactly at the caller's start,
\* also when start is not on a unit boundary, and the last window ends exactly
\* at the caller's end.
C9_FirstAndLastClamped ==
    (Returned /\ Lt(start_time, end_time)) =>
        /\ Len(intervals) >= 1
        /\ Key(intervals[1].start) = Key(start_time)
        /\ Key(intervals[Len(intervals)].end) = Key(end_time)
        /\ \A i \in 1..Len(intervals) :
              Le(start_time, intervals[i].start) /\ Le(intervals[i].end, end_time)

C9_Witness ==
    /\ Returned
    /\ temporal_partitioning = "month"
    /\ start_time = Ts(FirstYear, 1, 15, 0)
    /\ end_time = Ts(FirstYear, 3, 15, 0)
    /\ Len(intervals) = 3
    /\ intervals[1].start = Ts(FirstYear, 1, 15, 0)
    /\ intervals[3].end = Ts(FirstYear, 3, 15, 0)

\* C10: there is exactly one window for each calendar unit that intersects
\* [start, end), in order, and none for a unit that only touches end; each
\* window lies within its unit, its prefix reads as the numbers of its unit
\* (year / year_month / year_quarter / year_month_day), so the prefixes of one
\* call are distinct; quarter over 2021-01-01..2021-04-01 gives exactly
\* ("2021_1", 2021-01-01, 2021-04-01).
C10_OneWindowPerUnit ==
    Returned =>
        LET tp == temporal_partitioning
            lo == UnitIndex(start_time, tp)
            hi == LastUnitIndex(end_time, tp)
        IN /\ Lt(start_time, end_time) => Len(intervals) = hi - lo + 1
           /\ \A i \in 1..Len(intervals) :
                 LET w == intervals[i]
                 IN /\ UnitIndex(w.start, tp) = lo + i - 1
                    /\ LastUnitIndex(w.end, tp) = lo + i - 1
                    /\ PrefixNumbers(w.prefix) = UnitNumbers(w.start, tp)
           /\ Cardinality({intervals[i].prefix : i \in 1..Len(intervals)}) = Len(intervals)
           /\ (tp = "quarter" /\ start_time = Ts(2021, 1, 1, 0) /\ end_time = Ts(2021, 4, 1, 0))
                 => intervals = <<[prefix |-> <<"2", "0", "2", "1", "_", "1">>,
                                   start |-> Ts(2021, 1, 1, 0),
                                   end |-> Ts(2021, 4, 1, 0)]>>

C10_Witness ==
    /\ Returned
    /\ temporal_partitioning = "quarter"
    /\ start_time = Ts(2021, 1, 1, 0)
    /\ end_time = Ts(2021, 4, 1, 0)
    /\ Len(intervals) = 1

(***************************************************************************)
(* Claims about merge_granule_buckets.                                     *)
(***************************************************************************)
\* The time_prefix of the window a consolidated file was written for: the
\* basename without its "_<i>.parquet".
RECURSIVE LastUnderscore(_, _)
LastUnderscore(name, i) ==
    IF i = 0 THEN 0 ELSE IF name[i] = "_" THEN i ELSE LastUnderscore(name, i - 1)

WindowPrefix(name) == SubSeq(name, 1, LastUnderscore(name, Len(name)) - 1)

\* Two half-open ranges have an instant in common.
Overlap(s1, e1, s2, e2) == Lt(TsMax(s1, s2), TsMin(e1, e2))

\* The filepaths of a partition that a run with the current arguments consolidates.
Discovered(p) ==
    LET all == FilesOf(src_at_start, p)
    IN IF start_time # NoTime /\ end_time # NoTime
       THEN {f \in all : Overlap(f.start_time, f.end_time, start_time, end_time)}
       ELSE all

\* The overall bounds of the windows of a run for a set of files.
BoundStart(files) == IF start_time = NoTime THEN MinStartTime(files) ELSE start_time
BoundEnd(files) == IF end_time = NoTime THEN MaxEndTime(files) ELSE end_time

InUpdate == update /\ pc \in {"delete", "write"}

\* C3: in an update run, while the old files of a partition are being removed
\* nothing has been written to it, and when the rewrite begins (and as long as it
\* lasts) no file that existed before the run and whose name starts with the
\* prefix of a window to be rewritten is left in the partition.
C3_DeleteBeforeRewrite ==
    /\ (update /\ pc = "delete") =>
          \A name \in DOMAIN dst_files[partition_label] :
              dst_files[partition_label][name].old
    /\ (update /\ pc = "write") =>
          \A i \in 1..Len(groups_dict) :
              \A name \in DOMAIN dst_pre[partition_label] :
                  StartsWith(name, groups_dict[i].prefix) =>
                      \/ name \notin DOMAIN dst_files[partition_label]
                      \/ ~dst_files[partition_label][name].old

C3_Witness ==
    /\ update /\ pc = "write" /\ write_idx = 2
    /\ Cardinality({name \in DOMAIN dst_pre[partition_label] :
                       StartsWith(name, groups_dict[1].prefix)}) >= 2
    /\ \A name \in DOMAIN dst_files[partition_label] :
           StartsWith(name, groups_dict[1].prefix) => ~dst_files[partition_label][name].old

C6_PartitionAlreadyExists ==
    /\ (pc = "failed" /\ error = "ValueError: partition already exists") =>
          /\ ~update
          /\ dst_files[partition_label] = dst_pre[partition_label]
    /\ (~update /\ pc = "write" /\ write_idx = 1) => partition_label \notin dst_part_dirs
    /\ (~update /\ pc = "done") =>
          \A p \in Partitions : Discovered(p) # {} => dst_pre[p] = EmptyDir

C6_Witness ==
    /\ pc = "failed" /\ error = "ValueError: partition already exists"
    /\ dst_pre[partition_label] # EmptyDir
    /\ dst_files[partition_label] = dst_pre[partition_label]

GranularityValidated ==
    pc # "idle" /\ src_read /\ error # "NotImplementedError: repartitioning"

\* C11 (as claimed): a merge run whose temporal granularity is year, month,
\* quarter or day is not rejected for its granularity; with any other
\* granularity the run fails with the error of the granularity validation and
\* consolidates nothing.
C11_GranularityAccepted ==
    GranularityValidated =>
        IF temporal_partitioning \in Granularities
        THEN error \notin {"ValueError: invalid temporal_partitioning",
                           "NotImplementedError: invalid temporal_partitioning"}
        ELSE /\ pc = "failed"
             /\ error = "ValueError: invalid temporal_partitioning"
             /\ written = {}

UpdateArgumentErrors ==
    {"OSError: bucket directory does not exist",
     "ValueError: define both start_time and end_time"}

\* C18: a run with update=True whose destination directory does not exist, or
\* that lacks start_time or end_time, has failed with the matching error
\* without having read the source archive, and the step that fails so leaves
\* the destination as it was: its existence, its metadata record, its
\* partition directories and its files.
C18_UpdateFailsFast ==
    /\ [](\/ ~(update /\ pc # "idle")
          \/ ~(~dst_exists \/ start_time = NoTime \/ end_time = NoTime)
          \/ /\ pc = "failed"
             /\ error = (IF ~dst_exists
                         THEN "OSError: bucket directory does not exist"
                         ELSE "ValueError: define both start_time and end_time")
             /\ ~src_read
             /\ written = {} /\ dst_files = dst_pre)
    /\ [][(update' /\ pc' = "failed" /\ error' \in UpdateArgumentErrors) =>
              /\ dst_exists' = dst_exists /\ dst_info' = dst_info
              /\ dst_part_dirs' = dst_part_dirs
              /\ MarkOld(dst_files') = MarkOld(dst_files)]_vars

C18_Witness ==
    /\ update /\ pc = "failed"
    /\ error = "ValueError: define both start_time and end_time"
    /\ dst_exists /\ start_time # NoTime /\ end_time = NoTime
    /\ \E p \in Partitions : dst_files[p] # EmptyDir
    /\ ~src_read

\* C19: a run with update=True that passed the checks of its arguments works
\* with the temporal and the spatial partitioning of the destination's
\* metadata record, whatever the caller gave, and no step of a run with
\* update=True changes that record.
C19_UpdateUsesStoredPartitioning ==
    /\ []((update /\ pc # "idle" /\ src_read) =>
             /\ temporal_partitioning = dst_info.temporal_partitioning
             /\ dst_spatial_partitioning = dst_info.spatial_partitioning)
    /\ [][update' => (dst_info' = dst_info /\ dst_exists' = dst_exists)]_vars

\* No run with update=True is given "quarter" (MergeArgs): here the caller's
\* temporal_partitioning differs from the stored one.
C19_Witness ==
    /\ update /\ pc = "done" /\ written # {}
    /\ temporal_partitioning = "quarter"
    /\ \A args \in MergeArgs : args[1] => args[2] # "quarter"

\* C20 (as claimed): a run whose destination spatial partitioning differs from
\* the partitioning of the source archive writes no consolidated file.
C20_RepartitioningNotImplemented ==
    (pc # "idle" /\ dst_spatial_partitioning \notin {None, SrcSpatialPartitioning})
        => written = {}

\* C21: the step that takes up a partition for which discovery and the time
\* filter leave no source file raises nothing and goes on with the loop over
\* the partitions: the partition is done, no directory is made, no file of the
\* destination is created, changed or removed and nothing is written, with or
\* without update; and at the end of a run such a partition holds the files it
\* held before.
C21_EmptyPartitionSkipped ==
    /\ [][\A p \in Partitions :
             (pc = "partition" /\ p \in todo /\ partition_label' = p
                 /\ Discovered(p) = {}) =>
                 /\ pc' = "partition" /\ error' = error
                 /\ todo' = todo \ {p}
                 /\ dst_part_dirs' = dst_part_dirs /\ dst_files' = dst_files
                 /\ dst_exists' = dst_exists /\ dst_info' = dst_info
                 /\ written' = written]_vars
    /\ [](pc = "done" =>
             \A p \in Partitions :
                 Discovered(p) = {} =>
                     /\ dst_files[p] = dst_pre[p]
                     /\ \A w \in written : w.partition # p)

C21_Witness ==
    /\ update /\ pc = "done" /\ written # {}
    /\ \E p \in Partitions :
          /\ Discovered(p) = {}
          /\ FilesOf(src_bucket, p) # {}
          /\ dst_files[p] # EmptyDir /\ dst_files[p] = dst_pre[p]

PartitionErrors ==
    {"ValueError: partition already exists",
     "NotImplementedError: invalid temporal_partitioning", "FileNotFoundError"}

\* C22: when the processing of a partition has raised, the run is over: no
\* partition still to be iterated has been touched, what the run wrote for
\* the partitions it completed before is on disk, and no later step changes
\* the destination; a run with update=False reaches its end only if no
\* partition with files to consolidate held files before the run.
C22_FailFast ==
    /\ []((pc = "failed" /\ error \in PartitionErrors) =>
             /\ partition_label \in todo
             /\ \A p \in todo \ {partition_label} :
                   /\ dst_files[p] = dst_pre[p]
                   /\ \A w \in written : w.partition # p
             /\ \A w \in written :
                   (w.partition # partition_label /\ w.rows # {}) =>
                       /\ Basename(w.prefix, 0) \in DOMAIN dst_files[w.partition]
                       /\ \A r \in w.rows :
                             \E name \in DOMAIN dst_files[w.partition] :
                                 r \in dst_files[w.partition][name].rows)
    /\ []((~update /\ pc = "done") =>
             \A p \in Partitions : dst_pre[p] # EmptyDir => Discovered(p) = {})
    /\ [][pc = "failed" =>
             /\ MarkOld(dst_files') = MarkOld(dst_files)
             /\ dst_part_dirs' = dst_part_dirs]_vars

C22_Witness ==
    /\ pc = "failed" /\ error = "ValueError: partition already exists"
    /\ \E w \in written :
          /\ w.partition # partition_label /\ w.rows # {}
          /\ Basename(w.prefix, 0) \in DOMAIN dst_files[w.partition]

C28_FailedRunKeepsInfo ==
    (/\ ~update /\ pc = "failed" /\ info_pre # NoInfo
     /\ error \in {"ValueError: no file found", "ValueError: partition already exists"})
        => dst_info = info_pre

split_list_in_blocks_floor(values, block_size) ==
    [b \in 1..(Len(values) \div block_size) |->
        SubSeq(values, ((b - 1) * block_size) + 1, b * block_size)]

\* values[i : i + block_size] for i in range(0, len(values), block_size)
split_list_in_blocks(values, block_size) ==
    [b \in 1..((Len(values) + block_size - 1) \div block_size) |->
        SubSeq(values, ((b - 1) * block_size) + 1,
               IF b * block_size < Len(values) THEN b * block_size ELSE Len(values))]

\* os.path.basename
basename(path) == [stem |-> path.stem, ext |-> path.ext]

\* os.path.splitext(...)[0]
splitext0(name) == name.stem

\* filename_prefix = os.path.splitext(os.path.basename(src_filepath))[0]
filename_prefix(src_filepath) == splitext0(basename(src_filepath))

Event(ev, src) == [ev |-> ev, src |-> src]

\* write_granule_bucket without the return on None (lines 111-112): add_labels
\* is given None and raises.
write_granule_bucket_none_unchecked(src_filepath, files) ==
    LET what == behaviour[src_filepath]
        called == <<Event("granule_to_df_func", src_filepath)>>
        labelled == called \o <<Event("add_labels", src_filepath)>>
        name == Basename(filename_prefix(src_filepath), 0)
    IN CASE what = "raise in granule_to_df_func" ->
               [files |-> files, effects |-> called, raised |-> what]
         [] what \in {"None", "raise in add_labels"} ->
               [files |-> files, effects |-> labelled, raised |-> "raise in add_labels"]
         [] what = "raise in write_partitioned_dataset" ->
               [files |-> files, effects |-> labelled, raised |-> what]
         [] what = "df" ->
               [files |-> [nm \in (DOMAIN files) \cup {name} |->
                              IF nm = name THEN src_filepath ELSE files[nm]],
                effects |-> labelled \o <<Event("write_partitioned_dataset", src_filepath)>>,
                raised |-> None]

\* write_granule_bucket: the files of the archive after the call, the effects
\* of the call and the exception it raised, or None.
write_granule_bucket(src_filepath, files) ==
    LET what == behaviour[src_filepath]
        called == <<Event("granule_to_df_func", src_filepath)>>
        labelled == called \o <<Event("add_labels", src_filepath)>>
        name == Basename(filename_prefix(src_filepath), 0)
    IN CASE what = "raise in granule_to_df_func" ->
               [files |-> files, effects |-> called, raised |-> what]
         [] what = "None" ->
               [files |-> files, effects |-> called, raised |-> None]
         [] what = "raise in add_labels" ->
               [files |-> files, effects |-> labelled, raised |-> what]
         [] what = "raise in write_partitioned_dataset" ->
               [files |-> files, effects |-> labelled, raised |-> what]
         [] what = "df" ->
               [files |-> [nm \in (DOMAIN files) \cup {name} |->
                              IF nm = name THEN src_filepath ELSE files[nm]],
                effects |-> labelled \o <<Event("write_partitioned_dataset", src_filepath)>>,
                raised |-> None]

\* _try_write_granule_bucket without the except clause.
_try_write_granule_bucket_uncaught(src_filepath, files) ==
    LET r == write_granule_bucket(src_filepath, files)
    IN [files |-> r.files, effects |-> r.effects, info |-> <<>>, raised |-> r.raised]

\* _try_write_granule_bucket: info is None (here <<>>) or (src_filepath, str(e));
\* an exception is caught.
_try_write_granule_bucket(src_filepath, files) ==
    LET r == write_granule_bucket(src_filepath, files)
    IN [files |-> r.files, effects |-> r.effects,
        info |-> IF r.raised = None THEN <<>> ELSE <<src_filepath, r.raised>>,
        raised |-> None]

InitIngest ==
    /\ NoMerge /\ NoUtil
    /\ start_time = NoTime /\ end_time = NoTime /\ temporal_partitioning = None
    /\ intervals = <<>>
    /\ pc = "ingest"
    /\ src_filepaths \in ListsOf(Paths)
    /\ behaviour \in [Paths -> Outcomes]
    /\ \A x \in Paths \ Elems(src_filepaths) : behaviour[x] = "df"
    /\ parallel \in BOOLEAN
    /\ max_dask_total_tasks \in 1..MaxBlockSize
    /\ bucket_info = NoInfo /\ bucket_files = EmptyDir
    /\ list_blocks = <<>> /\ block_idx = 0 /\ list_results = <<>> /\ pending = {}
    /\ reported = <<>> /\ uncaught = None /\ log = <<>>

otherVars == <<start_time, end_time, temporal_partitioning, periodVars, mergeVars,
               utilVars>>

\* write_granules_bucket without the call of write_bucket_info at line 208.
StartIngest_no_info ==
    /\ pc = "ingest"
    /\ list_blocks' = split_list_in_blocks(src_filepaths, max_dask_total_tasks)
    /\ block_idx' = 1
    /\ pc' = IF list_blocks' = <<>> THEN "ingested" ELSE "block"
    /\ UNCHANGED <<otherVars, src_filepaths, behaviour, parallel, max_dask_total_tasks,
                   bucket_info, bucket_files, list_results, pending, reported,
                   uncaught, log>>

\* write_granules_bucket up to the loop over the blocks (lines 204-214).
StartIngest ==
    /\ pc = "ingest"
    /\ bucket_info' = write_bucket_info(SrcSpatialPartitioning, None)
    /\ log' = Append(log, Event("write_bucket_info", NoPath))
    /\ list_blocks' = split_list_in_blocks(src_filepaths, max_dask_total_tasks)
    /\ block_idx' = 1
    /\ pc' = IF list_blocks' = <<>> THEN "ingested" ELSE "block"
    /\ UNCHANGED <<otherVars, src_filepaths, behaviour, parallel, max_dask_total_tasks,
                   bucket_files, list_results, pending, reported, uncaught>>

\* The calls of a block are set up (lines 217-232).
SubmitBlock ==
    /\ pc = "block"
    /\ list_results' = [k \in 1..Len(list_blocks[block_idx]) |-> <<>>]
    /\ pending' = 1..Len(list_blocks[block_idx])
    /\ pc' = "tasks"
    /\ UNCHANGED <<otherVars, src_filepaths, behaviour, parallel, max_dask_total_tasks,
                   bucket_info, bucket_files, list_blocks, block_idx, reported,
                   uncaught, log>>

\* One call of func for a file of the block: in the order of the block when
\* not parallel, in any order under compute_list_delayed.
RunTask(k) ==
    /\ pc = "tasks"
    /\ k \in pending
    /\ parallel \/ \A j \in pending : k <= j
    /\ LET src_filepath == list_blocks[block_idx][k]
           r == _try_write_granule_bucket(src_filepath, bucket_files)
       IN /\ bucket_files' = r.files
          /\ log' = log \o r.effects
          /\ IF r.raised = None
             THEN /\ list_results' = [list_results EXCEPT ![k] = r.info]
                  /\ pending' = pending \ {k}
                  /\ UNCHANGED <<pc, uncaught>>
             ELSE /\ pc' = "aborted" /\ uncaught' = r.raised
                  /\ UNCHANGED <<list_results, pending>>
    /\ UNCHANGED <<otherVars, src_filepaths, behaviour, parallel, max_dask_total_tasks,
                   bucket_info, list_blocks, block_idx, reported>>

\* The errors of the block are printed (lines 241-244).
ReportBlock ==
    /\ pc = "tasks" /\ pending = {}
    /\ LET list_errors == SelectSeq(list_results, LAMBDA info : info # <<>>)
       IN /\ reported' = reported \o list_errors
          /\ log' = log \o [i \in 1..Len(list_errors) |-> Event("print", list_errors[i][1])]
    /\ IF parallel
       THEN pc' = "reclaim" /\ UNCHANGED block_idx
       ELSE /\ block_idx' = block_idx + 1
            /\ pc' = IF block_idx = Len(list_blocks) THEN "ingested" ELSE "block"
    /\ UNCHANGED <<otherVars, src_filepaths, behaviour, parallel, max_dask_total_tasks,
                   bucket_info, bucket_files, list_blocks, list_results, pending, uncaught>>

\* The end of a block without clean_memory and client.restart().
Reclaim_no_restart ==
    /\ pc = "reclaim"
    /\ block_idx' = block_idx + 1
    /\ pc' = IF block_idx = Len(list_blocks) THEN "ingested" ELSE "block"
    /\ UNCHANGED <<otherVars, src_filepaths, behaviour, parallel, max_dask_total_tasks,
                   bucket_info, bucket_files, list_blocks, list_results, pending,
                   reported, uncaught, log>>

\* clean_memory(client); client.restart() (lines 247-250).
Reclaim ==
    /\ pc = "reclaim"
    /\ log' = log \o <<Event("clean_memory", NoPath), Event("restart", NoPath)>>
    /\ block_idx' = block_idx + 1
    /\ pc' = IF block_idx = Len(list_blocks) THEN "ingested" ELSE "block"
    /\ UNCHANGED <<otherVars, src_filepaths, behaviour, parallel, max_dask_total_tasks,
                   bucket_info, bucket_files, list_blocks, list_results, pending,
                   reported, uncaught>>

NextIngest ==
    \/ StartIngest
    \/ SubmitBlock
    \/ \E k \in pending : RunTask(k)
    \/ ReportBlock
    \/ Reclaim

SpecIngest == InitIngest /\ [][NextIngest]_vars

\* Source files for the runs that ingest a source file twice, or two source
\* files of the same name in different directories.
RePaths == {Path("raw", <<"g", "1">>, "h5"), Path("old", <<"g", "1">>, "h5"),
            Path("raw", <<"g", "2">>, "h5")}

ReOutcomes == {"df", "None", "raise in granule_to_df_func"}

\* The lists of source files, a file possibly more than once.
ListsWithRepetition(paths) ==
    UNION {[1..n -> paths] : n \in 0..Cardinality(paths)}

InitReingest ==
    /\ NoMerge /\ NoUtil
    /\ start_time = NoTime /\ end_time = NoTime /\ temporal_partitioning = None
    /\ intervals = <<>>
    /\ pc = "ingest"
    /\ src_filepaths \in ListsWithRepetition(RePaths)
    /\ behaviour \in [RePaths -> ReOutcomes]
    /\ \A x \in RePaths \ Elems(src_filepaths) : behaviour[x] = "df"
    /\ parallel \in BOOLEAN
    /\ max_dask_total_tasks \in 1..MaxBlockSize
    /\ bucket_info = NoInfo /\ bucket_files = EmptyDir
    /\ list_blocks = <<>> /\ block_idx = 0 /\ list_results = <<>> /\ pending = {}
    /\ reported = <<>> /\ uncaught = None /\ log = <<>>

SpecReingest == InitReingest /\ [][NextIngest]_vars

\* How many elements of a sequence satisfy Test.
Count(seq, Test(_)) == Cardinality({i \in 1..Len(seq) : Test(seq[i])})

\* The blocks whose results have been collected and printed.
BlockDone(b) ==
    \/ pc = "ingested"
    \/ b < block_idx
    \/ b = block_idx /\ pc = "reclaim"

\* What C1 asks for a source file once its block has been processed.
Isolated(src) ==
    LET records == Count(reported, LAMBDA info : info[1] = src)
        calls == Count(log, LAMBDA e : e = Event("granule_to_df_func", src))
        writes == Count(log, LAMBDA e : e = Event("write_partitioned_dataset", src))
    IN /\ calls = 1
       /\ IF behaviour[src] \in Failures
          THEN /\ records = 1
               /\ \E i \in 1..Len(reported) : reported[i] = <<src, behaviour[src]>>
          ELSE records = 0
       /\ behaviour[src] = "df" =>
             /\ writes = 1
             /\ \E nm \in DOMAIN bucket_files : bucket_files[nm] = src

\* C1: whatever sources fail, write_granules_bucket does not abort; once a
\* block has been processed, every source of the block that does not fail has
\* been processed (and written, if it has data) and has no error record, and
\* every failing source of the block has exactly one (src_filepath, error_str)
\* record; at the end of the run this holds for every source of the list, and
\* there are as many records as failing sources.
C1_FailureIsolation ==
    /\ pc # "aborted" /\ uncaught = None
    /\ \A b \in 1..Len(list_blocks) :
          BlockDone(b) => \A src \in Elems(list_blocks[b]) : Isolated(src)
    /\ pc = "ingested" =>
          /\ \A src \in Elems(src_filepaths) : Isolated(src)
          /\ Len(reported) = Cardinality({src \in Elems(src_filepaths) :
                                             behaviour[src] \in Failures})

C1_Witness ==
    /\ pc = "ingested"
    /\ Len(src_filepaths) = 3 /\ max_dask_total_tasks = 2
    /\ behaviour[src_filepaths[1]] = "raise in granule_to_df_func"
    /\ behaviour[src_filepaths[2]] = "df" /\ behaviour[src_filepaths[3]] = "df"
    /\ Len(reported) = 1
    /\ \A i \in 2..3 : \E nm \in DOMAIN bucket_files : bucket_files[nm] = src_filepaths[i]

\* The steps that write the per-source file of a source file.
Writes(src) == Count(log, LAMBDA e : e = Event("write_partitioned_dataset", src))

FilesOfSource(src) == {nm \in DOMAIN bucket_files : bucket_files[nm] = src}

\* C12 (as claimed): no step of an ingestion removes a file of the archive or
\* changes what it holds, and every step that writes for a source file, also
\* for a source file ingested before, adds a file under a name that was not
\* there.
C12_WritesOnlyNewFiles ==
    [][/\ \A nm \in DOMAIN bucket_files :
             nm \in DOMAIN bucket_files' /\ bucket_files'[nm] = bucket_files[nm]
       /\ (\E i \in (Len(log) + 1)..Len(log') : log'[i].ev = "write_partitioned_dataset")
             => \E nm \in DOMAIN bucket_files' : nm \notin DOMAIN bucket_files]_vars

\* C13 (as claimed): two different source files that have been written have
\* different file name prefixes.
C13_PrefixCollisionFree ==
    \A a, b \in Elems(src_filepaths) :
        (a # b /\ Writes(a) > 0 /\ Writes(b) > 0)
            => filename_prefix(a) # filename_prefix(b)

Calls(src) == Count(log, LAMBDA e : e = Event("granule_to_df_func", src))

\* C14: a source file for which granule_to_df_func returned None ends its call
\* without an exception: the run is not aborted, add_labels was not called for
\* it, nothing was written for it and no file is its, and it has no failure
\* record, in the results of its block or among the reported ones.
C14_NoneIsSkipped ==
    \A src \in Elems(src_filepaths) :
        (behaviour[src] = "None" /\ Calls(src) > 0) =>
            /\ pc # "aborted" /\ uncaught = None
            /\ Count(log, LAMBDA e : e = Event("add_labels", src)) = 0
            /\ Writes(src) = 0 /\ FilesOfSource(src) = {}
            /\ Count(reported, LAMBDA info : info[1] = src) = 0
            /\ Count(log, LAMBDA e : e = Event("print", src)) = 0
            /\ (pc = "tasks" /\ \E k \in 1..Len(list_results) :
                                   list_blocks[block_idx][k] = src /\ k \notin pending)
                   => \A k \in 1..Len(list_results) :
                          (list_blocks[block_idx][k] = src /\ k \notin pending)
                              => list_results[k] = <<>>

C14_Witness ==
    /\ pc = "ingested" /\ Len(src_filepaths) = 2
    /\ behaviour[src_filepaths[1]] = "None" /\ Calls(src_filepaths[1]) = 1
    /\ behaviour[src_filepaths[2]] = "df" /\ FilesOfSource(src_filepaths[2]) # {}
    /\ Cardinality(DOMAIN bucket_files) = 1 /\ reported = <<>>

RECURSIVE Flatten(_)
Flatten(blocks) ==
    IF blocks = <<>> THEN <<>> ELSE Head(blocks) \o Flatten(Tail(blocks))

\* C15: the blocks of split_list_in_blocks are not empty, hold at most
\* block_size elements, and put end to end are the list that was given; every
\* source file of the list is in exactly one block, is processed at most once,
\* and exactly once when the run has ended.
C15_BlocksPartitionTheList ==
    pc # "ingest" =>
        /\ \A b \in 1..Len(list_blocks) :
              Len(list_blocks[b]) \in 1..max_dask_total_tasks
        /\ Flatten(list_blocks) = src_filepaths
        /\ \A src \in Elems(src_filepaths) :
              /\ Cardinality({b \in 1..Len(list_blocks) :
                                 src \in Elems(list_blocks[b])}) = 1
              /\ Calls(src) <= 1
              /\ pc = "ingested" => Calls(src) = 1

C15_Witness ==
    /\ pc = "ingested"
    /\ Len(src_filepaths) = 3 /\ max_dask_total_tasks = 2
    /\ Len(list_blocks) = 2 /\ Len(list_blocks[1]) = 2 /\ Len(list_blocks[2]) = 1
    /\ \A src \in Elems(src_filepaths) : Calls(src) = 1

\* C16: before the run starts nothing is logged; from its first step on the
\* metadata record of the archive has been written exactly once, as the first
\* thing the run did, so before any source file was processed; this holds for
\* the empty list too.
C16_InfoWrittenOnceFirst ==
    IF pc = "ingest"
    THEN log = <<>> /\ bucket_info = NoInfo
    ELSE /\ Len(log) >= 1 /\ log[1] = Event("write_bucket_info", NoPath)
         /\ Count(log, LAMBDA e : e.ev = "write_bucket_info") = 1
         /\ bucket_info # NoInfo

C16_Witness ==
    /\ pc = "ingested" /\ Len(src_filepaths) = 2
    /\ log[1] = Event("write_bucket_info", NoPath)
    /\ log[2].ev = "granule_to_df_func"
    /\ Count(log, LAMBDA e : e.ev = "write_bucket_info") = 1

\* The block a source file is in.
BlockOf(src) == CHOOSE b \in 1..Len(list_blocks) : src \in Elems(list_blocks[b])

\* How many restarts of the workers are logged before position i of the log.
RestartsBefore(i) == Count(SubSeq(log, 1, i - 1), LAMBDA e : e.ev = "restart")

\* The source files in the order in which they were processed.
CallOrder ==
    LET calls == SelectSeq(log, LAMBDA e : e.ev = "granule_to_df_func")
    IN [i \in 1..Len(calls) |-> calls[i].src]

\* C17: in parallel mode, when the workers are about to be reclaimed every
\* task of the block has completed and every failure of the block has been
\* reported; every call for a source file of block k, and every report of a
\* failure of block k, comes after exactly k - 1 restarts of the workers, and
\* every restart comes after a clean_memory.  When not parallel the source
\* files are processed in the order of the list and the workers are never
\* reclaimed.
C17_BlockBarrier ==
    /\ pc = "reclaim" =>
          /\ parallel /\ pending = {}
          /\ \A src \in Elems(list_blocks[block_idx]) :
                /\ Calls(src) = 1
                /\ behaviour[src] \in Failures =>
                      /\ Count(reported, LAMBDA info : info[1] = src) = 1
                      /\ Count(log, LAMBDA e : e = Event("print", src)) = 1
    /\ parallel =>
          /\ \A i \in 1..Len(log) :
                /\ log[i].ev \in {"granule_to_df_func", "print"}
                      => RestartsBefore(i) = BlockOf(log[i].src) - 1
                /\ log[i].ev = "restart" => (i > 1 /\ log[i - 1].ev = "clean_memory")
          /\ pc \in {"block", "tasks", "reclaim"} => RestartsBefore(Len(log) + 1) = block_idx - 1
          /\ pc = "ingested" => RestartsBefore(Len(log) + 1) = Len(list_blocks)
    /\ ~parallel =>
          /\ \A i \in 1..Len(log) : log[i].ev \notin {"restart", "clean_memory"}
          /\ CallOrder = SubSeq(src_filepaths, 1, Len(CallOrder))

C17_Witness ==
    /\ parallel /\ pc = "tasks" /\ block_idx = 2
    /\ max_dask_total_tasks = 2 /\ Len(src_filepaths) = 3
    /\ behaviour[src_filepaths[1]] \in Failures
    /\ RestartsBefore(Len(log) + 1) = 1
    /\ Count(log, LAMBDA e : e = Event("print", src_filepaths[1])) = 1

(***************************************************************************)
(* satbucket.info: the times of a file from its name.                      *)
(***************************************************************************)
\* The days and the times of day of the file names.
FileDays == {44380, 44381}
FileHours == {0, 3, 23}

Datetimes == {Value("datetime", d, h) : d \in FileDays, h \in FileHours}

TimeFormats == {"absent", "datetime", "time"}
DateFormats == {"absent", "date"}

Patterns ==
    {Pattern(st, et, sd, ed) : st \in TimeFormats, et \in TimeFormats,
                               sd \in DateFormats, ed \in DateFormats}

Filenames == {Filename(p, s, e) : p \in Patterns, s \in Datetimes, e \in Datetimes}

\* datetime.datetime.strptime, by which trollsift converts a field with a
\* "%" format: always a datetime.datetime; the date directives that the format
\* lacks give 1900-01-01, the time directives it lacks give 00:00:00.
strptime(fmt, instant) ==
    CASE fmt = "datetime" -> Value("datetime", instant.day, instant.hour)
      [] fmt = "time" -> Value("datetime", 0, instant.hour)
      [] fmt = "date" -> Value("datetime", instant.day, 0)
      [] fmt = "absent" -> Absent

\* Parser(filename_pattern).parse(filename): the dictionary of the fields, or
\* ValueError when the file name is not laid out by the pattern.
parse(name, filename_pattern) ==
    IF name.pattern # filename_pattern
    THEN Result("ValueError: string does not match the pattern", "nothing", NoDict)
    ELSE Result(None, "dict",
                [start_time |-> strptime(filename_pattern.start_time, name.start),
                 end_time |-> strptime(filename_pattern.end_time, name.end),
                 start_date |-> strptime(filename_pattern.start_date, name.start),
                 end_date |-> strptime(filename_pattern.end_date, name.end)])

\* isinstance(v, datetime.datetime), isinstance(v, datetime.time) and
\* isinstance(v, datetime.date): datetime.datetime is a subclass of
\* datetime.date and not of datetime.time.
IsDatetime(v) == v.type = "datetime"
IsTime(v) == v.type = "time"
IsDate(v) == v.type \in {"date", "datetime"}

\* datetime.datetime.combine(date, time)
combine(date, time) == Value("datetime", date.day, time.hour)

\* Hours since 1900-01-01 00:00: the order of the datetimes.
Hours(v) == (v.day * 24) + v.hour

\* parse_filename_pattern after the call of the parser (lines 37-80).
resolve_times(info_dict) ==
    LET start_t == info_dict.start_time
        start_date == info_dict.start_date
        end_t == info_dict.end_time
        end_date == info_dict.end_date
        start_error ==
            IF IsDatetime(start_t) THEN None
            ELSE IF IsTime(start_t)
            THEN (IF ~IsDate(start_date)
                  THEN "ValueError: start_time is a time object but start_date is missing or invalid."
                  ELSE None)
            ELSE "ValueError: Invalid or missing start_time in info_dict."
        start_datetime ==
            IF IsDatetime(start_t) THEN start_t ELSE combine(start_date, start_t)
        replaced == Value("datetime", start_datetime.day, end_t.hour)
        end_error ==
            IF IsDatetime(end_t) \/ IsTime(end_t) THEN None
            ELSE "ValueError: Invalid or missing end_time in info_dict."
        end_datetime ==
            IF IsDatetime(end_t) THEN end_t
            ELSE IF end_date # Absent /\ IsDate(end_date) THEN combine(end_date, end_t)
            ELSE IF Hours(replaced) < Hours(start_datetime)
                 THEN Value("datetime", replaced.day + 1, replaced.hour)
            ELSE replaced
    IN IF start_error # None THEN Result(start_error, "nothing", NoDict)
       ELSE IF end_error # None THEN Result(end_error, "nothing", NoDict)
       ELSE Result(None, "dict",
                   [start_time |-> start_datetime, end_time |-> end_datetime,
                    start_date |-> Absent, end_date |-> Absent])

\* parse_filename_pattern(filename, filename_pattern)
parse_filename_pattern(name, filename_pattern) ==
    LET parsed == parse(name, filename_pattern)
    IN IF parsed.raised # None THEN parsed ELSE resolve_times(parsed.value)

\* The call parse_filename_pattern(filename, pattern=pattern) of line 122: the
\* function has no parameter of the name given by keyword.
call_parse_filename_pattern(name, keyword, filename_pattern) ==
    IF keyword # "filename_pattern"
    THEN Result("TypeError: got an unexpected keyword argument", "nothing", NoDict)
    ELSE parse_filename_pattern(name, filename_pattern)

\* The loop of _get_info_from_filename (lines 121-129) from pattern i on: the
\* info_dict of the first pattern that is valid, or a result without one.
RECURSIVE try_patterns(_, _, _)
try_patterns(name, patterns, i) ==
    IF i > Len(patterns) THEN NoResult
    ELSE LET r == call_parse_filename_pattern(name, "pattern", patterns[i])
         IN IF r.raised = None /\ r.value.start_time # Absent /\ r.value.end_time # Absent
            THEN r
            ELSE try_patterns(name, patterns, i + 1)

\* _get_info_from_filename(filename, filename_patterns): when no pattern is
\* valid the ValueError is returned, not raised (line 131).
_get_info_from_filename(name, patterns) ==
    LET found == try_patterns(name, patterns, 1)
    IN IF found.returned # "dict"
       THEN Result(None, "exception", NoDict)
       ELSE found

\* A pattern other than the one of the file name.
OtherPattern(name) ==
    IF name.pattern = NoPattern
    THEN Pattern("datetime", "datetime", "absent", "absent") ELSE NoPattern

InitInfo ==
    /\ NoMerge /\ NoIngest
    /\ start_time = NoTime /\ end_time = NoTime /\ temporal_partitioning = None
    /\ intervals = <<>>
    /\ pc = "info"
    /\ filename \in Filenames
    /\ filename_patterns \in {<<filename.pattern>>,
                              <<OtherPattern(filename), filename.pattern>>,
                              <<OtherPattern(filename)>>}
    /\ info_result = NoResult
    /\ ds_time = <<>> /\ time_result = NoTimeResult

notInfoVars == <<start_time, end_time, temporal_partitioning, periodVars, mergeVars,
                 ingestVars, timeVars>>

\* A call of parse_filename_pattern with the first pattern of the list.
CallParseFilenamePattern ==
    /\ pc = "info"
    /\ info_result' = parse_filename_pattern(filename, filename_patterns[1])
    /\ pc' = "parsed"
    /\ UNCHANGED <<notInfoVars, filename, filename_patterns>>

\* A call of get_info_from_filepath: os.path.basename, then
\* _get_info_from_filename (lines 136-141).
CallGetInfoFromFilepath ==
    /\ pc = "info"
    /\ info_result' = _get_info_from_filename(filename, filename_patterns)
    /\ pc' = "info_returned"
    /\ UNCHANGED <<notInfoVars, filename, filename_patterns>>

NextInfo ==
    \/ CallParseFilenamePattern
    \/ CallGetInfoFromFilepath

SpecInfo == InitInfo /\ [][NextInfo]_vars

\* The instants a file name was written from.
Instant(v) == Value("datetime", v.day, v.hour)

\* parse_filename_pattern was called with the pattern of the file name.
Parsed == pc = "parsed" /\ filename_patterns[1] = filename.pattern

\* C23 (as claimed): when parse_filename_pattern returns, the end_time of the
\* result is, for an end_time field that is a time of day without an end_date
\* field, the date of the resulting start_time with that time of day, a day
\* later if that is before start_time, so that start_time <= end_time <
\* start_time + 1 day; for an end_time field that is a time of day with an
\* end_date field, that date with that time of day; for an end_time field with
\* a date, the datetime in the name.
C23_EndTimeResolved ==
    (Parsed /\ info_result.raised = None) =>
        LET fmt == filename.pattern
            s == info_result.value.start_time
            e == info_result.value.end_time
            same_day == Value("datetime", s.day, filename.end.hour)
        IN /\ (fmt.end_time = "time" /\ fmt.end_date = "absent") =>
                 /\ e = IF Hours(same_day) < Hours(s)
                        THEN Value("datetime", s.day + 1, filename.end.hour)
                        ELSE same_day
                 /\ Hours(s) <= Hours(e) /\ Hours(e) < Hours(s) + 24
           /\ (fmt.end_time = "time" /\ fmt.end_date = "date") => e = Instant(filename.end)
           /\ fmt.end_time = "datetime" => e = Instant(filename.end)

\* C24 (as claimed): for a pattern with a start time (with its date, in the
\* field or in a start_date field) and no end_time field, parse_filename_pattern
\* returns the start datetime as start_time and two hours later as end_time.
C24_DefaultEndTime ==
    (/\ Parsed
     /\ filename.pattern.end_time = "absent"
     /\ \/ filename.pattern.start_time = "datetime"
        \/ filename.pattern.start_time = "time" /\ filename.pattern.start_date = "date")
        => /\ info_result.raised = None
           /\ info_result.value.start_time = Instant(filename.start)
           /\ Hours(info_result.value.end_time) = Hours(Instant(filename.start)) + 2

\* C25 (as claimed): parse_filename_pattern returns as start_time the datetime
\* in the name when the start_time field has a date, and the start_date with
\* the time of day when the start_time field is a time of day; it raises
\* ValueError when the start_time field is a time of day and there is no
\* start_date field; the dictionary it returns has no start_date and no
\* end_date.
C25_StartTimeResolved ==
    Parsed =>
        LET fmt == filename.pattern
        IN /\ (fmt.start_time = "time" /\ fmt.start_date = "absent") =>
                 info_result.raised =
                     "ValueError: start_time is a time object but start_date is missing or invalid."
           /\ info_result.raised = None =>
                 /\ fmt.start_time = "datetime" =>
                       info_result.value.start_time = Instant(filename.start)
                 /\ (fmt.start_time = "time" /\ fmt.start_date = "date") =>
                       info_result.value.start_time = Instant(filename.start)
                 /\ info_result.value.start_date = Absent
                 /\ info_result.value.end_date = Absent

\* The patterns of the list that parse the file name and give both times.
ValidPatterns ==
    {i \in 1..Len(filename_patterns) :
        LET r == parse_filename_pattern(filename, filename_patterns[i])
        IN r.raised = None /\ r.value.start_time # Absent /\ r.value.end_time # Absent}

\* C26 (as claimed): get_info_from_filepath returns the dictionary of the
\* first pattern of the list that parses the file name and gives start_time
\* and end_time, and raises ValueError('Invalid pattern specified.') when no
\* pattern does.
C26_FirstValidPattern ==
    pc = "info_returned" =>
        IF ValidPatterns = {}
        THEN info_result.raised = "ValueError: Invalid pattern specified."
        ELSE LET i == CHOOSE i \in ValidPatterns : \A j \in ValidPatterns : i <= j
             IN /\ info_result.raised = None /\ info_result.returned = "dict"
                /\ info_result.value
                       = parse_filename_pattern(filename, filename_patterns[i]).value

(***************************************************************************)
(* satbucket.utils.time: the time axis of a dataset.                       *)
(***************************************************************************)
TimeAxes == UNION {[1..n -> 1..MaxTimeValue] : n \in 0..MaxTimesteps}

\* np.diff
diff(time) == [i \in 1..(Len(time) - 1) |-> time[i + 1] - time[i]]

\* The position of x in a sorted sequence, after the elements equal to it.
RECURSIVE Insert(_, _)
Insert(sorted, x) ==
    IF sorted = <<>> THEN <<x>>
    ELSE IF x < Head(sorted) THEN <<x>> \o sorted
    ELSE <<Head(sorted)>> \o Insert(Tail(sorted), x)

\* ds.sortby(time_dim): the timesteps in increasing order, each as many times
\* as it is in the dataset.
RECURSIVE sortby(_)
sortby(time) ==
    IF time = <<>> THEN <<>>
    ELSE Insert(sortby(SubSeq(time, 1, Len(time) - 1)), time[Len(time)])

\* _check_time_sorted(ds, time_dim): the exception raised or None, and the time
\* axis of the dataset returned.
_check_time_sorted(time) ==
    LET time_diff == diff(time)
    IN IF \E i \in 1..Len(time_diff) : time_diff[i] = 0
       THEN TimeResult("ValueError: duplicated timesteps", "nothing", <<>>, <<>>)
       ELSE IF ~(\A i \in 1..Len(time_diff) : time_diff[i] > 0)
       THEN TimeResult(None, "ds", sortby(time), sortby(time))
       ELSE TimeResult(None, "ds", time, time)

\* pd.date_range(start, end, freq): start, start + freq, ... up to end.
RECURSIVE time_range(_, _, _)
time_range(start, end, freq) ==
    IF start > end THEN <<>> ELSE <<start>> \o time_range(start + freq, end, freq)

\* regularize_dataset(ds, freq): _check_time_sorted, then the reindexing on
\* the regular time axis from the first to the last timestep; xarray cannot
\* reindex along an index with duplicate values.
regularize_dataset(time, freq) ==
    LET checked == _check_time_sorted(time)
        axis == checked.time
    IN IF checked.raised # None THEN checked
       ELSE IF axis = <<>>
       THEN TimeResult("IndexError: index 0 is out of bounds", "nothing", axis, <<>>)
       ELSE IF \E i, j \in 1..Len(axis) : i # j /\ axis[i] = axis[j]
       THEN TimeResult("ValueError: cannot reindex, the index has duplicate values",
                       "nothing", axis, <<>>)
       ELSE TimeResult(None, "ds", axis, time_range(axis[1], axis[Len(axis)], freq))

InitTime ==
    /\ NoMerge /\ NoIngest
    /\ start_time = NoTime /\ end_time = NoTime /\ temporal_partitioning = None
    /\ intervals = <<>>
    /\ pc = "time"
    /\ filename = NoFilename /\ filename_patterns = <<>> /\ info_result = NoResult
    /\ ds_time \in TimeAxes
    /\ time_result = NoTimeResult

notTimeVars == <<start_time, end_time, temporal_partitioning, periodVars, mergeVars,
                 ingestVars, infoVars>>

CallCheckTimeSorted ==
    /\ pc = "time"
    /\ time_result' = _check_time_sorted(ds_time)
    /\ pc' = "checked"
    /\ UNCHANGED <<notTimeVars, ds_time>>

CallRegularizeDataset(freq) ==
    /\ pc = "time"
    /\ time_result' = regularize_dataset(ds_time, freq)
    /\ pc' = "regularized"
    /\ UNCHANGED <<notTimeVars, ds_time>>

NextTime ==
    \/ CallCheckTimeSorted
    \/ \E freq \in 1..MaxFreq : CallRegularizeDataset(freq)

SpecTime == InitTime /\ [][NextTime]_vars

StrictlyIncreasing(time) == \A i \in 1..(Len(time) - 1) : time[i] < time[i + 1]

\* C30 (as claimed): _check_time_sorted raises or returns a dataset whose time
\* axis is strictly increasing, and the time axis regularize_dataset reindexes
\* from is strictly increasing.
C30_CheckedTimeStrictlyIncreasing ==
    /\ pc = "checked" =>
          time_result.raised # None \/ StrictlyIncreasing(time_result.time)
    /\ pc = "regularized" =>
          \/ time_result.raised \in {"ValueError: duplicated timesteps",
                                     "IndexError: index 0 is out of bounds"}
          \/ StrictlyIncreasing(time_result.checked)

====
